---- MODULE Spec2Model ----
(***************************************************************************)
(* matrix-cli (src/src/main.rs): login-vs-restore, the initial sync, the   *)
(* select! race between the sync loop and process_cmd, and the room        *)
(* identifier helpers, as a state machine.                                 *)
(*                                                                         *)
(* The matrix_sdk Client is the environment: every call the program makes  *)
(* on it is appended to `calls`, and its answer is chosen nondeterminis-   *)
(* tically where the program handles both answers.                         *)
(***************************************************************************)
EXTENDS Integers, Sequences, FiniteSets, TLC

(***************************************************************************)
(* Bounds                                                                  *)
(***************************************************************************)
\* number of fetches the continuous sync loop performs in a checked run
MaxSync == 2

(***************************************************************************)
(* Identifiers are sequences of characters, so that parsing looks at the   *)
(* sigil and the server-name delimiter as the ruma parsers do.             *)
(***************************************************************************)
None == <<>>

RoomJoined   == <<"!", "a", ":", "s">>
RoomOther    == <<"!", "b", ":", "s">>
AliasJoined  == <<"#", "a", ":", "s">>
AliasOther   == <<"#", "b", ":", "s">>
AliasUnknown == <<"#", "c", ":", "s">>
AliasBare    == <<"#", "a">>
NoSigil      == <<"a", ":", "s">>

RoomTokens == {RoomJoined, RoomOther, AliasJoined, AliasOther, AliasUnknown,
               AliasBare, NoSigil}

UserGood == <<"@", "u", ":", "s">>
UserBad  == <<"u">>
UserTokens == {UserGood, UserBad}

NewAliasGood == <<"#", "n", ":", "s">>
NewAliasBad  == <<"n">>
NewAliasTokens == {NewAliasGood, NewAliasBad}

\* Option<String> values of `room create`: absent, well formed, ill formed
NameGood == <<"T">>
NameBad  == <<"">>
NameOpts == {None, NameGood, NameBad}

VersionGood == <<"6">>
VersionBad  == <<"">>
VersionOpts == {None, VersionGood, VersionBad}

CreateAliasOpts == {None, <<"n">>}

(***************************************************************************)
(* What the homeserver and the client's store hold.                        *)
(***************************************************************************)
\* the alias directory of the homeserver
AliasDirectory == (AliasJoined :> RoomJoined) @@ (AliasOther :> RoomOther)

\* rooms the store knows as joined after the initial sync
JoinedRooms == {RoomJoined}

(***************************************************************************)
(* Parsing                                                                 *)
(***************************************************************************)
\* sigil + localpart + ':' + non-empty server name
HasServerName(s) ==
    \E i \in 2..Len(s) : s[i] = ":" /\ i < Len(s)

IsDelimitedId(s, sigils) ==
    /\ Len(s) > 0
    /\ s[1] \in sigils
    /\ HasServerName(s)

\* <&RoomOrAliasId>::try_from(s).is_ok()
RoomOrAliasIdOk(s) == IsDelimitedId(s, {"!", "#"})

\* <&RoomId>::try_from(s).is_ok()
RoomIdOk(s) == IsDelimitedId(s, {"!"})

\* <&RoomAliasId>::try_from(s).is_ok()
RoomAliasIdOk(s) == IsDelimitedId(s, {"#"})

\* <&UserId>::try_from(s).is_ok()
UserIdOk(s) == IsDelimitedId(s, {"@"})

\* is_room_id testing for the alias sigil
is_room_id_swapped(id) == id[1] = "#"

\* RoomOrAliasId::is_room_id
is_room_id(id) == id[1] = "!"

\* <&RoomName>::try_from / RoomVersionId::try_from reject the empty string
NonEmptyOk(s) == s # <<"">>

(***************************************************************************)
(* Command line (struct Cli and the MatrixCli command tree)                *)
(***************************************************************************)
Cmd(cat, act, room, user, alias, name, is_public, version) ==
    [cat |-> cat, act |-> act, room |-> room, user |-> user, alias |-> alias,
     name |-> name, is_public |-> is_public, version |-> version]

\* Option<MatrixCli> = None
NoCmd == Cmd("none", "none", None, None, None, None, FALSE, None)

\* a category given without an action: `commands` is None
BareCategories ==
    {Cmd(c, "none", None, None, None, None, FALSE, None) :
        c \in {"message", "user", "room"}}

MessageCmds ==
    {Cmd("message", a, r, None, None, None, FALSE, None) :
        a \in {"send", "listen"}, r \in RoomTokens}

UserActions ==
    {"get-display-name", "set-display-name", "get-avatar-url", "set-avatar",
     "set-avatar-url", "invited-rooms", "left-rooms", "joined-rooms"}

UserCmds ==
    {Cmd("user", a, None, None, None, None, FALSE, None) : a \in UserActions}

RoomUserCmds ==
    {Cmd("room", a, r, u, None, None, FALSE, None) :
        a \in {"ban", "kick", "invite"}, r \in RoomTokens, u \in UserTokens}

RoomOnlyCmds ==
    {Cmd("room", a, r, None, None, None, FALSE, None) :
        a \in {"join", "leave"}, r \in RoomTokens}

RoomCreateAliasCmds ==
    {Cmd("room", "create-alias", r, None, al, None, FALSE, None) :
        r \in RoomTokens, al \in NewAliasTokens}

RoomCreateCmds ==
    {Cmd("room", "create", None, None, al, n, p, v) :
        al \in CreateAliasOpts, n \in NameOpts, p \in BOOLEAN, v \in VersionOpts}

Subcommands ==
    {NoCmd} \cup BareCategories \cup MessageCmds \cup UserCmds \cup RoomUserCmds
        \cup RoomOnlyCmds \cup RoomCreateAliasCmds \cup RoomCreateCmds

(***************************************************************************)
(* State                                                                   *)
(***************************************************************************)
VARIABLES
    username,       \* args.username is Some
    password,       \* args.password is Some
    session_file,   \* args.session_file is Some
    dry_run,        \* args.dry_run
    subcommands,    \* args.subcommands
    disk,           \* the file at the session path
    pc,             \* position of main
    cmdPc,          \* position of the process_cmd future
    syncPc,         \* position of the sync future
    room_id,        \* process_cmd's local room_id once bound
    resolved,       \* get_room_id_from_alias_str has been entered
    handlers,       \* event handlers registered on the client
    calls,          \* calls made on the client, in order
    syncFetches,    \* fetches made by the continuous sync loop
    fetchLog,       \* how each of those fetches ended, in order
    session_writes, \* how often the session file was created/written
    out,            \* lines printed
    outcome         \* how the process ended

argvars == <<username, password, session_file, dry_run, subcommands>>
taskvars == <<cmdPc, syncPc, room_id, resolved, handlers, syncFetches, fetchLog>>
vars == <<username, password, session_file, dry_run, subcommands, disk, pc,
          cmdPc, syncPc, room_id, resolved, handlers, calls, syncFetches,
          fetchLog, session_writes, out, outcome>>

Call(op, target) == [op |-> op, target |-> target]

Running    == [kind |-> "Running", msg |-> ""]
Ok         == [kind |-> "Ok", msg |-> ""]
Err(msg)   == [kind |-> "Err", msg |-> msg]
Panic(msg) == [kind |-> "Panic", msg |-> msg]

\* main returns (Ok / Err through `?`) or unwinds (a failed expect/unwrap)
Exit(o) ==
    /\ pc' = "done"
    /\ outcome' = o

DiskStates == {"absent", "valid", "corrupt", "unreadable"}

Init ==
    /\ username \in BOOLEAN
    /\ password \in BOOLEAN
    /\ session_file \in BOOLEAN
    /\ dry_run \in BOOLEAN
    /\ subcommands \in Subcommands
    /\ disk \in (IF session_file THEN DiskStates ELSE {"absent"})
    /\ pc = "login"
    /\ cmdPc = "idle"
    /\ syncPc = "idle"
    /\ room_id = None
    /\ resolved = FALSE
    /\ handlers = 0
    /\ calls = <<>>
    /\ syncFetches = 0
    /\ fetchLog = <<>>
    /\ session_writes = 0
    /\ out = <<>>
    /\ outcome = Running

(***************************************************************************)
(* login                                                                   *)
(***************************************************************************)
\* the session file is only used when no credentials were supplied
session_file_exists_unless_credentials ==
    /\ session_file
    /\ disk # "absent"
    /\ ~(username /\ password)

session_file_exists ==
    /\ session_file
    /\ disk # "absent"

\* a fresh login that sends whatever credentials it has
FreshLoginUnchecked ==
    /\ calls' = Append(calls, Call("login", None))
    /\ pc' = "await_login"
    /\ UNCHANGED outcome

\* match session_file_exists { false => ... } up to the login request
FreshLogin ==
    IF ~username THEN
        Exit(Panic("Missing username")) /\ UNCHANGED calls
    ELSE IF ~password THEN
        Exit(Panic("Missing password")) /\ UNCHANGED calls
    ELSE
        /\ calls' = Append(calls, Call("login", None))
        /\ pc' = "await_login"
        /\ UNCHANGED outcome

\* a restore that falls back to a fresh login when the file cannot be used
RestoreLoginWithFallback ==
    IF disk # "valid" THEN
        FreshLogin
    ELSE
        /\ calls' = Append(calls, Call("restore_login", None))
        /\ pc' = "await_restore"
        /\ UNCHANGED outcome

\* match session_file_exists { true => ... } up to restore_login
RestoreLogin ==
    IF disk = "unreadable" THEN
        Exit(Err("io")) /\ UNCHANGED calls
    ELSE IF disk # "valid" THEN
        Exit(Err("serde_json")) /\ UNCHANGED calls
    ELSE
        /\ calls' = Append(calls, Call("restore_login", None))
        /\ pc' = "await_restore"
        /\ UNCHANGED outcome

login ==
    /\ pc = "login"
    /\ IF session_file_exists THEN RestoreLogin ELSE FreshLogin
    /\ UNCHANGED <<argvars, taskvars, disk, session_writes, out>>

\* the session is written whether or not a path was given
WritesSessionAlways == TRUE

\* if session_file.is_some()
WritesSession == session_file

\* File::create(..)? ; client.session() ; serde_json::to_writer(..)?
SaveSession ==
    \E create_ok \in BOOLEAN, write_ok \in BOOLEAN :
        IF ~create_ok THEN
            Exit(Err("io")) /\ UNCHANGED <<disk, session_writes>>
        ELSE
            /\ session_writes' = session_writes + 1
            /\ IF write_ok
               THEN disk' = "valid" /\ pc' = "sync_once" /\ UNCHANGED outcome
               ELSE disk' = "empty" /\ Exit(Err("serde_json"))

\* client.login(..).await? and the session write
login_response ==
    /\ pc = "await_login"
    /\ \E ok \in BOOLEAN :
        IF ~ok THEN
            Exit(Err("login")) /\ UNCHANGED <<disk, session_writes>>
        ELSE IF WritesSession THEN
            SaveSession
        ELSE
            pc' = "sync_once" /\ UNCHANGED <<outcome, disk, session_writes>>
    /\ UNCHANGED <<argvars, taskvars, calls, out>>

\* client.restore_login(session).await?
restore_response ==
    /\ pc = "await_restore"
    /\ \E ok \in BOOLEAN :
        IF ok
        THEN pc' = "sync_once" /\ UNCHANGED outcome
        ELSE Exit(Err("restore_login"))
    /\ UNCHANGED <<argvars, taskvars, disk, session_writes, calls, out>>

\* login returning the client without the initial sync
sync_once_skipped ==
    /\ pc = "sync_once"
    /\ pc' = "select"
    /\ UNCHANGED <<argvars, taskvars, disk, session_writes, calls, out, outcome>>

\* client.sync_once(SyncSettings::default()) is sent
sync_once ==
    /\ pc = "sync_once"
    /\ calls' = Append(calls, Call("sync_once", None))
    /\ pc' = "await_sync_once"
    /\ UNCHANGED <<argvars, taskvars, disk, session_writes, out, outcome>>

\* .await.unwrap(); Ok(client); main enters select!
sync_once_response ==
    /\ pc = "await_sync_once"
    /\ \E ok \in BOOLEAN :
        IF ok
        THEN pc' = "select" /\ UNCHANGED outcome
        ELSE Exit(Panic("sync_once"))
    /\ UNCHANGED <<argvars, taskvars, disk, session_writes, calls, out>>

(***************************************************************************)
(* sync: the continuous sync loop, one branch of select!                   *)
(***************************************************************************)
\* a joined room that no command names
RoomElse == <<"!", "e", ":", "s">>

\* Room::Joined(_) for the room an event arrives in
StoreJoined == JoinedRooms \cup {RoomElse}

SyncEvents ==
    [room : {RoomJoined, RoomElse, RoomOther}, msgtype : {"Text", "Image"}]

Line(tag, val) == [tag |-> tag, val |-> val]

\* the closure registered by `message listen`
Callback(event) ==
    IF event.room \in StoreJoined /\ event.msgtype = "Text"
    THEN <<Line("message", event.room)>>
    ELSE <<>>

\* client.sync_token().await.unwrap(); client.sync(settings) starts
sync ==
    /\ pc = "select"
    /\ syncPc = "idle"
    /\ syncPc' = "loop"
    /\ UNCHANGED <<argvars, disk, pc, cmdPc, room_id, resolved, handlers, calls,
                   syncFetches, fetchLog, session_writes, out, outcome>>

\* how a fetch can fail: a transient error, or the access token is rejected
FetchFailures == {"failed", "unknown_token"}

\* a failed fetch ends the loop and the process with the error
OnFetchErrorStops(f) ==
    /\ fetchLog' = Append(fetchLog, f)
    /\ syncPc' = "stopped"
    /\ Exit(Err("sync"))
    /\ UNCHANGED out

\* client.sync(settings).await has no result: whatever a fetch fails with is
\* kept inside the client's loop, which goes on to the next fetch
OnFetchError(f) ==
    /\ fetchLog' = Append(fetchLog, f)
    /\ UNCHANGED <<syncPc, pc, outcome, out>>

\* the sync future goes on being polled after main has returned
SyncPolledDetached == TRUE

\* the sync future is polled only while main awaits select!
SyncPolled == pc = "select"

\* one turn of client.sync's loop: a failed fetch is retried, a batch is
\* handed to the registered event handlers
sync_fetch ==
    /\ SyncPolled
    /\ syncPc = "loop"
    /\ syncFetches < MaxSync
    /\ syncFetches' = syncFetches + 1
    /\ \/ \E f \in FetchFailures : OnFetchError(f)
       \/ \E e \in SyncEvents :
            /\ fetchLog' = Append(fetchLog, "ok")
            /\ out' = IF handlers > 0 THEN out \o Callback(e) ELSE out
            /\ UNCHANGED <<syncPc, pc, outcome>>
    /\ UNCHANGED <<argvars, disk, cmdPc, room_id, resolved, handlers,
                   calls, session_writes>>

(***************************************************************************)
(* Room identifier helpers                                                 *)
(***************************************************************************)
Unparsed == <<"?">>

\* <&RoomOrAliasId>::try_from(room_or_alias).unwrap().to_owned()
get_room_id_or_alias_from_str(room_or_alias) ==
    IF RoomOrAliasIdOk(room_or_alias) THEN room_or_alias ELSE Unparsed

\* <&RoomAliasId>::try_from(alias).unwrap().to_owned()
get_room_alias_id_from_str(alias) ==
    IF RoomAliasIdOk(alias) THEN alias ELSE Unparsed

\* name.map(|name| <&RoomName>::try_from(&name[..]).unwrap().to_owned())
get_room_name_from_opt_str(name) ==
    IF name = None THEN None
    ELSE IF NonEmptyOk(name) THEN name ELSE Unparsed

(***************************************************************************)
(* process_cmd, the other branch of select!                                *)
(***************************************************************************)
\* process_cmd returns or unwinds, and main with it
Finish(o) ==
    /\ Exit(o)
    /\ cmdPc' = "done"

\* a request is sent on the client and awaited
Issue(c, next) ==
    /\ calls' = Append(calls, c)
    /\ cmdPc' = next
    /\ UNCHANGED <<pc, outcome>>

\* the membership call is made without looking at the user id
MembershipUnchecked(cmd, rid) ==
    IF rid \notin JoinedRooms THEN
        Finish(Panic("User does not belong to this room")) /\ UNCHANGED calls
    ELSE
        Issue(Call(cmd.act, rid), "await_call")

\* get_joined_room(..).expect(..), the user id, then the membership call
Membership(cmd, rid) ==
    IF rid \notin JoinedRooms THEN
        Finish(Panic("User does not belong to this room")) /\ UNCHANGED calls
    ELSE IF cmd.act # "leave" /\ ~UserIdOk(cmd.user) THEN
        Finish(Panic("Invalid user name")) /\ UNCHANGED calls
    ELSE
        Issue(Call(cmd.act, rid), "await_call")

\* RoomCmd::CreateAlias after the room id is bound
CreateAlias(cmd, rid) ==
    IF get_room_alias_id_from_str(cmd.alias) = Unparsed THEN
        Finish(Panic("unwrap RoomAliasId")) /\ UNCHANGED calls
    ELSE
        Issue(Call("create_alias", rid), "await_call")

\* what Ban, CreateAlias, Invite, Kick and Leave do once room_id is bound
WithRoomId(cmd, rid) ==
    /\ room_id' = rid
    /\ IF cmd.act = "create-alias" THEN CreateAlias(cmd, rid) ELSE Membership(cmd, rid)

\* get_room_id_from_alias_str, up to the alias lookup it may need
get_room_id_from_alias_str(cmd) ==
    /\ resolved' = TRUE
    /\ IF get_room_id_or_alias_from_str(cmd.room) = Unparsed THEN
            /\ Finish(Panic("unwrap RoomOrAliasId"))
            /\ UNCHANGED <<calls, room_id>>
       ELSE IF is_room_id(cmd.room) THEN
            WithRoomId(cmd, cmd.room)
       ELSE
            /\ Issue(Call("get_alias", cmd.room), "await_alias")
            /\ UNCHANGED room_id
    /\ UNCHANGED <<handlers, out>>

\* get_room_id_from_alias: client.send(req, None).await.expect(..); response.room_id
get_room_id_from_alias ==
    /\ pc = "select"
    /\ cmdPc = "await_alias"
    /\ \E ok \in BOOLEAN :
        IF ok /\ subcommands.room \in DOMAIN AliasDirectory THEN
            WithRoomId(subcommands, AliasDirectory[subcommands.room])
        ELSE
            /\ Finish(Panic("Alias lookup failed"))
            /\ UNCHANGED <<calls, room_id>>
    /\ UNCHANGED <<argvars, disk, syncPc, resolved, handlers, syncFetches, fetchLog,
                   session_writes, out>>

\* MessageCmd::Send up to mroom.send(content, None)
Send(cmd) ==
    /\ IF ~RoomIdOk(cmd.room) THEN
            /\ Finish(Panic("Invalid Room ID"))
            /\ UNCHANGED <<calls, room_id>>
       ELSE
            /\ room_id' = cmd.room
            /\ IF cmd.room \notin JoinedRooms
               THEN Finish(Panic("User has not joined this room")) /\ UNCHANGED calls
               ELSE Issue(Call("send", cmd.room), "await_call")
    /\ UNCHANGED <<resolved, handlers, out>>

\* a listen that registers its handler and returns at once
ListenWithoutWaiting(cmd) ==
    /\ handlers' = handlers + 1
    /\ out' = Append(out, Line("listening", cmd.room))
    /\ Finish(Ok)
    /\ UNCHANGED <<calls, room_id, resolved>>

\* MessageCmd::Listen up to signal::ctrl_c()
Listen(cmd) ==
    /\ handlers' = handlers + 1
    /\ out' = Append(out, Line("listening", cmd.room))
    /\ cmdPc' = "listening"
    /\ UNCHANGED <<pc, outcome, calls, room_id, resolved>>

\* the request RoomCmd::Create builds
CreateRoomRequest(cmd) ==
    [name |-> get_room_name_from_opt_str(cmd.name),
     preset |-> IF cmd.is_public THEN "PublicChat" ELSE "PrivateChat",
     room_alias_name |-> cmd.alias,
     room_version |-> None]

\* the dry-run flag is not consulted
SendsCreateRoomAlways == TRUE

\* if !dry_run
SendsCreateRoom == ~dry_run

\* RoomCmd::Create up to client.create_room(request)
Create(cmd) ==
    /\ IF get_room_name_from_opt_str(cmd.name) = Unparsed THEN
            Finish(Panic("unwrap RoomName")) /\ UNCHANGED <<calls, out>>
       ELSE IF cmd.version # None /\ ~NonEmptyOk(cmd.version) THEN
            Finish(Panic("unwrap RoomVersionId")) /\ UNCHANGED <<calls, out>>
       ELSE
            /\ out' = out
                    \o (IF cmd.version # None
                        THEN <<Line("version", cmd.version)>> ELSE <<>>)
                    \o <<Line("request", CreateRoomRequest(cmd))>>
            /\ IF SendsCreateRoom
               THEN Issue(Call("create_room", CreateRoomRequest(cmd)), "await_call")
               ELSE Finish(Ok) /\ UNCHANGED calls
    /\ UNCHANGED <<room_id, resolved, handlers>>

\* a join that looks the alias up first and joins by room id
JoinTargetResolved(cmd) ==
    IF cmd.room \in DOMAIN AliasDirectory
    THEN AliasDirectory[cmd.room]
    ELSE get_room_id_or_alias_from_str(cmd.room)

\* what RoomCmd::Join hands to join_room_by_id_or_alias
JoinTarget(cmd) == get_room_id_or_alias_from_str(cmd.room)

\* RoomCmd::Join up to client.join_room_by_id_or_alias(&room_id, ..)
Join(cmd) ==
    /\ IF JoinTarget(cmd) = Unparsed
       THEN Finish(Panic("unwrap RoomOrAliasId")) /\ UNCHANGED calls
       ELSE Issue(Call("join", JoinTarget(cmd)), "await_call")
    /\ UNCHANGED <<room_id, resolved, handlers, out>>

\* the first client request of a UserCmd
UserRequest(act) ==
    CASE act = "get-display-name" -> "display_name"
      [] act = "set-display-name" -> "set_display_name"
      [] act = "get-avatar-url"   -> "avatar_url"
      [] act = "set-avatar"       -> "upload"
      [] act = "set-avatar-url"   -> "set_avatar_url"
      [] OTHER                    -> "none"

\* UserCmd handlers up to their first await
User(cmd) ==
    /\ IF cmd.act \in {"invited-rooms", "left-rooms", "joined-rooms"} THEN
            /\ out' = Append(out, Line("table", cmd.act))
            /\ Finish(Ok)
            /\ UNCHANGED calls
       ELSE IF cmd.act = "set-avatar" THEN
            \* guess.first().unwrap() and File::open(file)?
            /\ \E mime_ok \in BOOLEAN, open_ok \in BOOLEAN :
                IF ~open_ok THEN Finish(Err("io")) /\ UNCHANGED calls
                ELSE IF ~mime_ok THEN Finish(Panic("unwrap mime")) /\ UNCHANGED calls
                ELSE Issue(Call("upload", None), "await_upload")
            /\ UNCHANGED out
       ELSE
            /\ Issue(Call(UserRequest(cmd.act), None), "await_call")
            /\ UNCHANGED out
    /\ UNCHANGED <<room_id, resolved, handlers>>

\* with nothing to dispatch process_cmd waits for the sync loop to end
NoOpJoinsSync ==
    /\ cmdPc' = "await_sync"
    /\ UNCHANGED <<pc, outcome, calls, out, room_id, resolved, handlers>>

\* `if let Some(..)` does not match: process_cmd falls through to Ok(())
NoOp ==
    /\ Finish(Ok)
    /\ UNCHANGED <<calls, out, room_id, resolved, handlers>>

\* process_cmd from its first poll to its first await (or its return)
process_cmd ==
    /\ pc = "select"
    /\ cmdPc = "idle"
    /\ LET cmd == subcommands IN
        CASE cmd.act = "none" -> NoOp
          [] cmd.act = "send"   -> Send(cmd)
          [] cmd.act = "listen" -> Listen(cmd)
          [] cmd.cat = "user" /\ cmd.act # "none" -> User(cmd)
          [] cmd.act = "create" -> Create(cmd)
          [] cmd.act = "join"   -> Join(cmd)
          [] cmd.act \in {"ban", "kick", "invite", "leave", "create-alias"} ->
                get_room_id_from_alias_str(cmd)
    /\ UNCHANGED <<argvars, disk, syncPc, syncFetches, fetchLog, session_writes>>

\* client.upload(..).await? then client.set_avatar_url(..) is sent
upload_response ==
    /\ pc = "select"
    /\ cmdPc = "await_upload"
    /\ \E ok \in BOOLEAN :
        IF ok
        THEN Issue(Call("set_avatar_url", None), "await_call")
        ELSE Finish(Err("upload")) /\ UNCHANGED calls
    /\ UNCHANGED <<argvars, disk, syncPc, room_id, resolved, handlers, syncFetches, fetchLog,
                   session_writes, out>>

\* the answer to a handler's last request: `.await?`, the prints after it
call_response ==
    /\ pc = "select"
    /\ cmdPc = "await_call"
    /\ LET op == calls[Len(calls)].op IN
       \E ok \in BOOLEAN, some \in BOOLEAN :
        IF ~ok THEN
            Finish(Err(op)) /\ UNCHANGED out
        ELSE IF op = "avatar_url" /\ ~some THEN
            Finish(Panic("unwrap avatar_url")) /\ UNCHANGED out
        ELSE
            /\ out' = IF op \in {"display_name", "avatar_url", "create_room"}
                      THEN Append(out, Line("response", op)) ELSE out
            /\ Finish(Ok)
    /\ UNCHANGED <<argvars, disk, syncPc, room_id, resolved, handlers, calls,
                   syncFetches, fetchLog, session_writes>>

\* signal::ctrl_c().await.expect(..); println!("Exiting.")
ctrl_c ==
    /\ pc = "select"
    /\ cmdPc = "listening"
    /\ \E ok \in BOOLEAN :
        IF ok
        THEN out' = Append(out, Line("exiting", None)) /\ Finish(Ok)
        ELSE Finish(Panic("Failed to listen for Ctrl-C")) /\ UNCHANGED out
    /\ UNCHANGED <<argvars, disk, syncPc, room_id, resolved, handlers, calls,
                   syncFetches, fetchLog, session_writes>>

(***************************************************************************)
(* The program                                                             *)
(***************************************************************************)
Next ==
    \/ login
    \/ login_response
    \/ restore_response
    \/ sync_once
    \/ sync_once_response
    \/ sync
    \/ sync_fetch
    \/ process_cmd
    \/ get_room_id_from_alias
    \/ upload_response
    \/ call_response
    \/ ctrl_c

Spec == Init /\ [][Next]_vars

\* select! polls the process_cmd future as soon as main awaits it, and a
\* future that is ready at its first poll completes select! in that poll
FairSpec == Spec /\ WF_vars(process_cmd)

TypeOK ==
    /\ pc \in {"login", "await_login", "await_restore", "sync_once",
               "await_sync_once", "select", "done"}
    /\ cmdPc \in {"idle", "await_alias", "await_call", "await_upload",
                  "listening", "done"}
    /\ syncPc \in {"idle", "loop"}
    /\ Len(fetchLog) = syncFetches
    /\ outcome.kind \in {"Running", "Ok", "Err", "Panic"}
    /\ syncFetches \in 0..MaxSync
    /\ handlers \in 0..1

(***************************************************************************)
(* Properties                                                              *)
(***************************************************************************)
HasCall(op) == \E i \in DOMAIN calls : calls[i].op = op

Printed(tag) == \E i \in DOMAIN out : out[i].tag = tag

\* the room a well-formed token stands for on the homeserver, None if none
Canonical(token) ==
    IF RoomIdOk(token) THEN token
    ELSE IF token \in DOMAIN AliasDirectory THEN AliasDirectory[token]
    ELSE None

RoomCalls == {"send", "ban", "kick", "invite", "leave", "join", "create_alias"}

RoomTargeted ==
    {"send", "listen", "ban", "kick", "invite", "leave", "join", "create-alias"}

\* C2 (as stated): every room-targeted command runs the resolver on its room
\* token before its first membership or messaging call (or, for listen, before
\* it registers its callback), and so never rejects a well-formed alias as an
\* invalid room id.
C2_ResolverBeforeCall ==
    subcommands.act \in RoomTargeted =>
        /\ (\E i \in DOMAIN calls : calls[i].op \in RoomCalls) => resolved
        /\ handlers > 0 => resolved
        /\ RoomAliasIdOk(subcommands.room) => outcome.msg # "Invalid Room ID"

NotMemberMsgs ==
    {"NotMember", "User has not joined this room",
     "User does not belong to this room"}

\* C3 (as stated): a membership-scoped operation on a token that resolves to a
\* room the user has not joined ends with the returned error NotMember and
\* without a send/ban/kick/invite/leave call.
C3_NotMemberReturned ==
    (/\ subcommands.act \in {"send", "ban", "kick", "invite", "leave"}
     /\ Canonical(subcommands.room) # None
     /\ Canonical(subcommands.room) \notin JoinedRooms
     /\ cmdPc = "done"
     /\ outcome.msg # "Alias lookup failed")
        => /\ outcome.kind = "Err"
           /\ outcome.msg \in NotMemberMsgs
           /\ \A i \in DOMAIN calls :
                calls[i].op \notin {"send", "ban", "kick", "invite", "leave"}

CreateWellFormed ==
    /\ get_room_name_from_opt_str(subcommands.name) # Unparsed
    /\ subcommands.version # VersionBad

\* C4: `room create` with dry-run never issues a create_room call, and when
\* the handler has run on well-formed parameters it has printed the request
\* it built and returned Ok.
C4_DryRunNoCreate ==
    (subcommands.act = "create" /\ dry_run) =>
        /\ ~HasCall("create_room")
        /\ (cmdPc = "done" /\ CreateWellFormed) =>
                /\ outcome = Ok
                /\ out[Len(out)] = Line("request", CreateRoomRequest(subcommands))

C4_Witness ==
    /\ subcommands.act = "create"
    /\ dry_run
    /\ subcommands.name = NameGood
    /\ subcommands.version = VersionGood
    /\ cmdPc = "done"
    /\ Printed("request")

TaskStarted ==
    \/ syncPc # "idle"
    \/ cmdPc # "idle"
    \/ syncFetches > 0
    \/ handlers > 0

\* C5: neither the sync loop nor process_cmd takes a step before the initial
\* sync_once has been sent and has answered successfully; a run that ends in
\* login (authentication or the snapshot failed) has started neither.
C5_SnapshotBeforeTasks ==
    /\ TaskStarted =>
        /\ pc \in {"select", "done"}
        /\ HasCall("sync_once")
        /\ outcome # Panic("sync_once")
    /\ pc \notin {"select", "done"} => ~TaskStarted
    /\ (pc = "done" /\ cmdPc = "idle") => ~TaskStarted

C5_Witness ==
    /\ syncPc = "loop"
    /\ syncFetches > 0
    /\ cmdPc = "done"
    /\ HasCall("sync_once")

\* the session file existed when the run started (only a fresh login writes it)
FileExistedAtStart ==
    /\ session_file
    /\ \/ disk \in {"corrupt", "unreadable"}
       \/ disk = "valid" /\ session_writes = 0

RestoreFailed ==
    /\ FileExistedAtStart
    /\ \/ disk \in {"corrupt", "unreadable"} /\ pc # "login"
       \/ outcome = Err("restore_login")

\* C6: when the session file exists and opening, parsing or restoring it
\* fails, login returns an error, the run ends there, and no password login
\* (and no other request after the failure) is made.
C6_NoFallbackToFreshLogin ==
    RestoreFailed =>
        /\ pc = "done"
        /\ outcome.kind = "Err"
        /\ outcome.msg \in {"io", "serde_json", "restore_login"}
        /\ ~HasCall("login")
        /\ ~HasCall("sync_once")
        /\ ~TaskStarted

C6_Witness ==
    /\ session_file
    /\ disk = "corrupt"
    /\ username
    /\ password
    /\ pc = "done"
    /\ outcome = Err("serde_json")

C7_WriteInv ==
    /\ session_writes <= 1
    /\ session_writes = 1 =>
        /\ session_file
        /\ Len(calls) >= 1 /\ calls[1].op = "login"
        /\ ~HasCall("restore_login")
        /\ outcome # Err("login")
    /\ HasCall("restore_login") => session_writes = 0
    /\ outcome = Err("login") => session_writes = 0
    /\ ~session_file =>
        /\ session_writes = 0
        /\ disk = "absent"
        /\ (pc = "done" /\ calls = <<Call("login", None)>>) => outcome = Err("login")

\* C7: the session file is written at most once, only in the step that
\* receives the successful answer to a fresh login and only with a session
\* path configured; never on the restore path, never after a failed login,
\* never without a path (where a successful login goes on to the snapshot).
C7_SessionWrittenOnce ==
    /\ []C7_WriteInv
    /\ [][(session_writes' # session_writes \/ disk' # disk) =>
            /\ pc = "await_login"
            /\ calls[Len(calls)].op = "login"
            /\ session_file
            /\ session_writes' = 1]_vars
    /\ [][(~session_file /\ pc = "await_login") =>
            (pc' = "sync_once" \/ outcome' = Err("login"))]_vars

C7_Witness ==
    /\ session_file
    /\ session_writes = 1
    /\ disk = "valid"
    /\ pc = "select"

\* C8: with no session file and the username or the password missing, login
\* fails on the missing credential before any request: the run ends with no
\* call on the client at all.
C8_MissingCredentials ==
    (~session_file_exists /\ (~username \/ ~password) /\ pc # "login") =>
        /\ pc = "done"
        /\ outcome \in {Panic("Missing username"), Panic("Missing password")}
        /\ calls = <<>>
        /\ syncFetches = 0
        /\ ~TaskStarted
        /\ session_writes = 0

C8_Witness ==
    /\ ~session_file_exists
    /\ username
    /\ ~password
    /\ outcome = Panic("Missing password")
    /\ calls = <<>>

\* C9: with a session file present at startup the restore path is taken
\* whatever username and password are: no missing-credential failure, no
\* password login call, and a readable file leads to restore_login first.
C9_RestoreIgnoresCredentials ==
    FileExistedAtStart =>
        /\ ~HasCall("login")
        /\ outcome.msg \notin {"Missing username", "Missing password"}
        /\ (disk = "valid" /\ pc # "login") =>
                (Len(calls) >= 1 /\ calls[1].op = "restore_login")
        /\ (disk # "valid" /\ pc # "login") => outcome.kind = "Err"

C9_Witness ==
    /\ FileExistedAtStart
    /\ username
    /\ password
    /\ disk = "valid"
    /\ pc = "select"
    /\ calls[1].op = "restore_login"

\* C10: get_room_id_from_alias_str on a well-formed raw room id binds that
\* same id and makes no alias lookup.
C10_RoomIdUnchanged ==
    (resolved /\ RoomIdOk(subcommands.room)) =>
        /\ room_id = subcommands.room
        /\ ~HasCall("get_alias")
        /\ cmdPc # "await_alias"

C10_Witness ==
    /\ resolved
    /\ subcommands.room = RoomOther
    /\ room_id = RoomOther
    /\ cmdPc = "done"

CallCount(op) == Cardinality({i \in DOMAIN calls : calls[i].op = op})

\* C11 (as stated): for a well-formed alias the resolver makes exactly one
\* alias lookup and either binds the id the directory reports or, when the
\* directory has no mapping, ends the command with a returned error.
C11_OneLookupOrAliasNotFound ==
    (resolved /\ RoomAliasIdOk(subcommands.room) /\ cmdPc # "await_alias") =>
        /\ CallCount("get_alias") = 1
        /\ room_id # None => room_id = AliasDirectory[subcommands.room]
        /\ subcommands.room \notin DOMAIN AliasDirectory =>
                /\ room_id = None
                /\ outcome.kind = "Err"

\* C12 (as stated): for a token that is neither a room id nor a full alias
\* the resolver ends the command with a returned error and no request.
C12_MalformedReturnsError ==
    (resolved /\ ~RoomOrAliasIdOk(subcommands.room)) =>
        /\ outcome.kind = "Err"
        /\ ~HasCall("get_alias")
        /\ \A i \in DOMAIN calls : calls[i].op \notin RoomCalls

C13_LoopInv ==
    /\ syncPc \in {"idle", "loop"}
    /\ outcome # Err("sync")
    /\ (pc = "done" /\ syncPc = "loop") => cmdPc = "done"
    /\ (pc = "select" /\ syncPc = "loop" /\ syncFetches < MaxSync)
            => ENABLED sync_fetch

\* C13: the sync loop never ends by itself: whatever a fetch failed with, the
\* loop is still running and can fetch again, a batch fetched after a failure
\* is handed to the registered handler, and a run in which the loop was
\* started ends only with process_cmd completing.
C13_SyncLoopKeepsRunning ==
    /\ []C13_LoopInv
    /\ [][(fetchLog' # fetchLog /\ fetchLog'[Len(fetchLog')] = "ok" /\ handlers > 0)
            => \E e \in SyncEvents : out' = out \o Callback(e)]_vars
    /\ [][fetchLog' # fetchLog => (syncPc' = "loop" /\ pc' = "select")]_vars

C13_Witness ==
    /\ fetchLog = <<"failed", "ok">>
    /\ handlers > 0
    /\ Printed("message")
    /\ pc = "select"
    /\ syncPc = "loop"

\* C14: with no subcommand, or a category without an action, process_cmd
\* makes no request and never waits; once main reaches select! the process
\* ends with success, also while the sync loop is still running.
C14_NoSubcommandExits ==
    /\ [](subcommands.act = "none" =>
            /\ cmdPc \in {"idle", "done"}
            /\ cmdPc = "done" => outcome = Ok
            /\ \A i \in DOMAIN calls :
                 calls[i].op \in {"login", "restore_login", "sync_once"})
    /\ (subcommands.act = "none" /\ pc = "select")
            ~> (pc = "done" /\ outcome = Ok)

C14_Witness ==
    /\ subcommands = NoCmd
    /\ pc = "done"
    /\ outcome = Ok
    /\ syncPc = "loop"
    /\ syncFetches < MaxSync

\* C15: once process_cmd has completed, main has returned with its result,
\* and from then on the sync loop makes no fetch and no handler prints.
C15_SyncCancelledOnCompletion ==
    /\ [](cmdPc = "done" =>
            /\ pc = "done"
            /\ outcome.kind \in {"Ok", "Err", "Panic"})
    /\ [][cmdPc = "done" =>
            /\ syncFetches' = syncFetches
            /\ fetchLog' = fetchLog
            /\ out' = out
            /\ outcome' = outcome]_vars
    /\ [][(cmdPc # "done" /\ cmdPc' = "done") =>
            (pc' = "done" /\ outcome'.kind # "Running")]_vars

C15_Witness ==
    /\ subcommands.act = "send"
    /\ cmdPc = "done"
    /\ outcome = Ok
    /\ syncPc = "loop"
    /\ syncFetches > 0
    /\ syncFetches < MaxSync

\* C16 (as stated): a fetch that fails because the access token is no longer
\* valid is the loop's last fetch (it is not retried), and the process then
\* ends with an error, whatever process_cmd was doing.
C16_FatalSyncFailureTerminates ==
    \A i \in DOMAIN fetchLog :
        fetchLog[i] = "unknown_token" =>
            /\ i = Len(fetchLog)
            /\ pc = "done" => outcome.kind = "Err"

\* C17 (as stated): while `message listen` runs, the handler prints only
\* events of the room the token stands for.
C17_ListenFiltersRoom ==
    (subcommands.act = "listen" /\ Canonical(subcommands.room) # None) =>
        \A i \in DOMAIN out :
            out[i].tag = "message" => out[i].val = Canonical(subcommands.room)

BadUserCmd ==
    /\ subcommands.act \in {"ban", "kick", "invite"}
    /\ ~UserIdOk(subcommands.user)

\* C19 (as stated): ban, kick and invite with an ill-formed user id fail
\* without any request of the handler, the alias lookup included.
C19_UserValidatedBeforeAnyCall ==
    BadUserCmd =>
        /\ \A i \in DOMAIN calls :
             calls[i].op \in {"login", "restore_login", "sync_once"}
        /\ cmdPc = "done" => outcome.kind \in {"Err", "Panic"}

\* C19 (amended): ban, kick and invite with an ill-formed user id never make
\* the ban/kick/invite request and end in a panic; the only request the
\* handler may have made before is the alias lookup for an alias token.
C19_NoMembershipCallOnBadUser ==
    BadUserCmd =>
        /\ \A i \in DOMAIN calls :
             calls[i].op \in {"login", "restore_login", "sync_once", "get_alias"}
        /\ HasCall("get_alias") => RoomAliasIdOk(subcommands.room)
        /\ cmdPc \in {"idle", "await_alias", "done"}
        /\ cmdPc = "done" => outcome.kind = "Panic"
        /\ (cmdPc = "done" /\ room_id \in JoinedRooms)
                => outcome = Panic("Invalid user name")

C19_Witness ==
    /\ subcommands.act = "ban"
    /\ subcommands.user = UserBad
    /\ subcommands.room = AliasJoined
    /\ HasCall("get_alias")
    /\ outcome = Panic("Invalid user name")

\* C20 (as stated): a run whose room token is malformed makes no request at
\* all, neither in login nor in the sync loop nor in the handler, and fails.
C20_MalformedRoomNoNetwork ==
    (subcommands.act \in RoomTargeted /\ ~RoomOrAliasIdOk(subcommands.room)) =>
        /\ calls = <<>>
        /\ syncFetches = 0
        /\ pc = "done" => outcome.kind \in {"Err", "Panic"}

\* C21 (as stated): the request `room create` prints, and sends when not in
\* dry-run, carries the requested room version, and none when none was asked.
C21_RequestCarriesVersion ==
    subcommands.act = "create" =>
        /\ \A i \in DOMAIN out :
             out[i].tag = "request" =>
                out[i].val.room_version = subcommands.version
        /\ \A i \in DOMAIN calls :
             calls[i].op = "create_room" =>
                calls[i].target.room_version = subcommands.version

====
